---- MODULE Spec2Model ----
(***************************************************************************)
(* Model of scripts/option_selector.py: TermSheetOptionSelector maps raw   *)
(* form data to one of 9 option numbers, doubled by binding status.        *)
(*                                                                         *)
(* Python text is a sequence of one-character strings, so that lower(),    *)
(* strip() and the substring test `in` are computed, not assumed.  A raw   *)
(* form value is a record  [t, s, m, e, b]:                                *)
(*    t = "absent"  the key is not in the mapping                          *)
(*    t = "none"    None                                                   *)
(*    t = "bool"    the boolean b                                          *)
(*    t = "int"     the integer m * 10^e (Python integers are unbounded)   *)
(*    t = "float"   the float m * 10^e, or inf / nan when s is s_inf/s_nan *)
(*                  (m then carries the sign)                              *)
(*    t = "str"     the text s                                             *)
(***************************************************************************)
EXTENDS Integers, Sequences, FiniteSets, TLC

VARIABLES form_data, pc, binding_status, dd_structure, deposit_amount,
          has_deposit, has_escrow, has_exclusivity, jurisdiction,
          candidates, option_number, warned, result, raised,
          describe, validation

vars == <<form_data, pc, binding_status, dd_structure, deposit_amount,
          has_deposit, has_escrow, has_exclusivity, jurisdiction,
          candidates, option_number, warned, result, raised,
          describe, validation>>

----------------------------------------------------------------------------
(* Text literals of the source.                                            *)

s_binding == <<"b", "i", "n", "d", "i", "n", "g">>
s_non_binding == <<"n", "o", "n", "-", "b", "i", "n", "d", "i", "n", "g">>
s_false == <<"f", "a", "l", "s", "e">>
s_struct == <<"s", "t", "r", "u", "c", "t">>
s_structured == <<"s", "t", "r", "u", "c", "t", "u", "r", "e", "d">>
s_unstructured == <<"u", "n", "s", "t", "r", "u", "c", "t", "u", "r", "e", "d">>
s_exclusive == <<"e", "x", "c", "l", "u", "s", "i", "v", "e">>
s_non_exclusive == <<"n", "o", "n", "-", "e", "x", "c", "l", "u", "s", "i", "v", "e">>
s_non == <<"n", "o", "n">>
s_true == <<"t", "r", "u", "e">>
s_yes == <<"y", "e", "s">>
s_on == <<"o", "n">>
s_1 == <<"1">>
s_BINDING == <<"B", "I", "N", "D", "I", "N", "G">>
s_NON_BINDING == <<"N", "O", "N", "_", "B", "I", "N", "D", "I", "N", "G">>
s__Option_ == <<"_", "O", "p", "t", "i", "o", "n", "_">>

(* Text the Python runtime produces or recognises.                         *)
s_True == <<"T", "r", "u", "e">>
s_False == <<"F", "a", "l", "s", "e">>
s_None == <<"N", "o", "n", "e">>
s_inf == <<"i", "n", "f">>
s_infinity == <<"i", "n", "f", "i", "n", "i", "t", "y">>
s_nan == <<"n", "a", "n">>

----------------------------------------------------------------------------
(* Raw values.                                                             *)

RawStr(s) == [t |-> "str", s |-> s, m |-> 0, e |-> 0, b |-> FALSE]
RawInt(m, e) == [t |-> "int", s |-> <<>>, m |-> m, e |-> e, b |-> FALSE]
RawFloat(m, e) == [t |-> "float", s |-> <<>>, m |-> m, e |-> e, b |-> FALSE]
FloatSpecial(name, sign) == [t |-> "float", s |-> name, m |-> sign, e |-> 0, b |-> FALSE]
RawBool(b) == [t |-> "bool", s |-> <<>>, m |-> 0, e |-> 0, b |-> b]
None == [t |-> "none", s |-> <<>>, m |-> 0, e |-> 0, b |-> FALSE]
Absent == [t |-> "absent", s |-> <<>>, m |-> 0, e |-> 0, b |-> FALSE]

(* form_data.get(key, default)                                             *)
Get(fd, key, default) == IF fd[key].t = "absent" THEN default ELSE fd[key]

----------------------------------------------------------------------------
(* The Python built-ins the selector calls.                                *)

UpperCase == <<"A", "B", "C", "D", "E", "F", "G", "H", "I", "J", "K", "L", "M",
               "N", "O", "P", "Q", "R", "S", "T", "U", "V", "W", "X", "Y", "Z">>
LowerCase == <<"a", "b", "c", "d", "e", "f", "g", "h", "i", "j", "k", "l", "m",
               "n", "o", "p", "q", "r", "s", "t", "u", "v", "w", "x", "y", "z">>
Whitespace == {" ", "\t", "\n", "\r"}
DigitChars == <<"0", "1", "2", "3", "4", "5", "6", "7", "8", "9">>

LowerChar(c) ==
    IF \E i \in 1..26 : UpperCase[i] = c
    THEN LowerCase[CHOOSE i \in 1..26 : UpperCase[i] = c]
    ELSE c

(* str.lower()                                                             *)
Lower(s) == [i \in 1..Len(s) |-> LowerChar(s[i])]

(* str.strip()                                                             *)
Strip(s) ==
    LET keep == {i \in 1..Len(s) : s[i] \notin Whitespace}
    IN  IF keep = {} THEN <<>>
        ELSE SubSeq(s, CHOOSE i \in keep : \A j \in keep : i <= j,
                       CHOOSE i \in keep : \A j \in keep : i >= j)

(* sub in s                                                                *)
Contains(sub, s) ==
    \E i \in 0..(Len(s) - Len(sub)) : SubSeq(s, i + 1, i + Len(sub)) = sub

RECURSIVE NatStr(_)
NatStr(n) ==
    IF n < 10 THEN <<DigitChars[n + 1]>>
    ELSE NatStr(n \div 10) \o <<DigitChars[(n % 10) + 1]>>

Zeros(k) == [i \in 1..k |-> "0"]

(* str(int)                                                                *)
IntStr(m, e) ==
    IF m = 0 THEN <<"0">>
    ELSE (IF m < 0 THEN <<"-">> ELSE <<>>)
         \o NatStr(IF m < 0 THEN -m ELSE m) \o Zeros(e)

(* str(v): the text of a raw value                                         *)
PyStr(v) ==
    CASE v.t = "str" -> v.s
      [] v.t = "bool" -> IF v.b THEN s_True ELSE s_False
      [] v.t = "none" -> s_None
      [] v.t = "int" -> IntStr(v.m, v.e)

(* bool(v): the truth value of a raw value                                 *)
Truthy(v) ==
    CASE v.t = "str" -> v.s # <<>>
      [] v.t = "bool" -> v.b
      [] v.t = "none" -> FALSE
      [] v.t = "int" -> v.m # 0
      [] v.t = "float" -> v.m # 0

(* isinstance(v, str)                                                      *)
IsStr(v) == v.t = "str"

(* The decimal digits of the largest finite double, 1.7976931348623157e308 *)
DblMaxDigits == <<1, 7, 9, 7, 6, 9, 3, 1, 3, 4, 8, 6, 2, 3, 1, 5, 7>>

DigitVal(c) == (CHOOSE i \in 1..10 : DigitChars[i] = c) - 1

(* int > largest finite double, for the integer m * 10^e                   *)
IntTooLarge(m, e) ==
    LET d == NatStr(IF m < 0 THEN -m ELSE m)
        n == Len(d) + e
        dig(i) == IF i <= Len(d) THEN DigitVal(d[i]) ELSE 0
    IN  /\ m # 0
        /\ \/ n > 309
           \/ /\ n = 309
              /\ \E i \in 1..Len(DblMaxDigits) :
                    /\ dig(i) > DblMaxDigits[i]
                    /\ \A j \in 1..(i - 1) : dig(j) = DblMaxDigits[j]

IsDigits(s) == \A i \in 1..Len(s) : \E k \in 1..10 : DigitChars[k] = s[i]

RECURSIVE DigitsNat(_)
DigitsNat(s) ==
    IF s = <<>> THEN 0
    ELSE 10 * DigitsNat(SubSeq(s, 1, Len(s) - 1)) + DigitVal(s[Len(s)])

(* float(text): sign, digits and one decimal point, or inf / infinity /    *)
(* nan; anything else is a ValueError.  The texts of the model carry no    *)
(* exponent and no digit-group underscore.                                 *)
ParseFloat(text) ==
    LET t0 == Strip(text)
        signed == t0 # <<>> /\ t0[1] \in {"+", "-"}
        sign == IF signed /\ t0[1] = "-" THEN -1 ELSE 1
        body == IF signed THEN Tail(t0) ELSE t0
        dots == {i \in 1..Len(body) : body[i] = "."}
        dot == IF dots = {} THEN Len(body) + 1 ELSE CHOOSE i \in dots : TRUE
        whole == SubSeq(body, 1, dot - 1)
        frac == SubSeq(body, dot + 1, Len(body))
    IN  CASE Lower(body) \in {s_inf, s_infinity} ->
               [exc |-> "none", val |-> FloatSpecial(s_inf, sign)]
          [] Lower(body) = s_nan ->
               [exc |-> "none", val |-> FloatSpecial(s_nan, sign)]
          [] OTHER ->
               IF /\ Cardinality(dots) <= 1
                  /\ IsDigits(whole) /\ IsDigits(frac)
                  /\ Len(whole) + Len(frac) > 0
               THEN [exc |-> "none",
                     val |-> RawFloat(sign * DigitsNat(whole \o frac), -Len(frac))]
               ELSE [exc |-> "ValueError", val |-> None]

(* float(v): the value, or the exception the conversion raises             *)
PyFloat(v) ==
    CASE v.t = "str" -> ParseFloat(v.s)
      [] v.t = "bool" -> [exc |-> "none", val |-> RawFloat(IF v.b THEN 1 ELSE 0, 0)]
      [] v.t = "none" -> [exc |-> "TypeError", val |-> None]
      [] v.t = "float" -> [exc |-> "none", val |-> v]
      [] v.t = "int" ->
           IF IntTooLarge(v.m, v.e)
           THEN [exc |-> "OverflowError", val |-> None]
           ELSE [exc |-> "none", val |-> RawFloat(v.m, v.e)]

(* x > 0 for a number                                                      *)
Positive(x) == IF x.s = s_nan THEN FALSE ELSE x.m > 0

----------------------------------------------------------------------------
(* Class tables.                                                           *)

Row(dd, deposit, escrow, exclusivity, jur) ==
    [dd |-> dd, deposit |-> deposit, escrow |-> escrow,
     exclusivity |-> exclusivity, jurisdiction |-> jur]

OptionRows ==
    <<Row(s_structured, FALSE, TRUE, TRUE, s_exclusive),
      Row(s_unstructured, FALSE, TRUE, TRUE, s_exclusive),
      Row(s_structured, TRUE, TRUE, TRUE, s_exclusive),
      Row(s_unstructured, TRUE, TRUE, TRUE, s_exclusive),
      Row(s_unstructured, FALSE, FALSE, TRUE, s_exclusive),
      Row(s_unstructured, TRUE, FALSE, TRUE, s_exclusive),
      Row(s_unstructured, TRUE, TRUE, FALSE, s_exclusive),
      Row(s_unstructured, TRUE, TRUE, TRUE, s_non_exclusive),
      Row(s_unstructured, TRUE, TRUE, TRUE, s_exclusive)>>

(* The BINDING and the NON_BINDING table list the same nine rows.          *)
OPTIONS_REFERENCE == [BINDING |-> OptionRows, NON_BINDING |-> OptionRows]

OptionTexts ==
    <<"Structured DD, No Deposit, Escrow, Exclusivity, Exclusive JD",
      "Unstructured DD, No Deposit, Escrow, Exclusivity, Exclusive JD",
      "Structured DD, Deposit, Escrow, Exclusivity, Exclusive JD",
      "Unstructured DD, Deposit, Escrow, Exclusivity, Exclusive JD",
      "Unstructured DD, No Deposit, No Escrow, Exclusivity, Exclusive JD",
      "Unstructured DD, Deposit, No Escrow, Exclusivity, Exclusive JD",
      "Unstructured DD, Deposit, Escrow, No Exclusivity, Exclusive JD",
      "Unstructured DD, Deposit, Escrow, Exclusivity, Non-Exclusive JD",
      "STANDARD - Unstructured DD, Deposit, Escrow, Exclusivity, Exclusive JD">>

DESCRIPTIONS == [BINDING |-> OptionTexts, NON_BINDING |-> OptionTexts]

----------------------------------------------------------------------------
(* determine_option: extracting and normalizing the inputs.                *)

NormalizeBindingStatus(fd) ==
    LET raw == Strip(Lower(PyStr(Get(fd, "bindingStatus", RawStr(s_binding)))))
    IN  IF Contains(s_non_binding, raw) \/ raw = s_false
        THEN s_non_binding
        ELSE s_binding

(* Variant: the text compared with 'structured' instead of searched for    *)
(* 'struct'.                                                               *)
NormalizeDdStructure_Exact(fd) ==
    LET raw == Strip(Lower(PyStr(Get(fd, "dueDiligenceStructure",
                                     RawStr(s_unstructured)))))
    IN  IF raw = s_structured THEN s_structured ELSE s_unstructured

NormalizeDdStructure(fd) ==
    LET raw == Strip(Lower(PyStr(Get(fd, "dueDiligenceStructure",
                                     RawStr(s_unstructured)))))
    IN  IF Contains(s_struct, raw) THEN s_structured ELSE s_unstructured

(* The deposit amount, or the exception that leaves the try statement:    *)
(* the handler catches ValueError and TypeError only.                      *)
ConvertDepositAmount(fd) ==
    LET raw == Get(fd, "depositAmount", RawInt(0, 0))
        conv == PyFloat(raw)
    IN  IF ~Truthy(raw) THEN [exc |-> "none", val |-> RawInt(0, 0)]
        ELSE IF conv.exc \in {"ValueError", "TypeError"}
             THEN [exc |-> "none", val |-> RawInt(0, 0)]
             ELSE conv

TruthyWords == {s_true, s_yes, s_on, s_1}

(* A text flag becomes a boolean; any other value is kept as it is.        *)
NormalizeFlag(v) == IF IsStr(v) THEN RawBool(Lower(v.s) \in TruthyWords) ELSE v

NormalizeEscrow(fd) == NormalizeFlag(Get(fd, "escrowRequired", RawBool(FALSE)))

NormalizeExclusivity(fd) ==
    NormalizeFlag(Get(fd, "exclusivityRequired", RawBool(TRUE)))

NormalizeJurisdiction(fd) ==
    LET raw == Strip(Lower(PyStr(Get(fd, "jurisdiction", RawStr(s_exclusive)))))
    IN  IF Contains(s_non_exclusive, raw) \/ Contains(s_non, raw)
        THEN s_non_exclusive
        ELSE s_exclusive

----------------------------------------------------------------------------
(* _map_to_option: the five filters and the selection.                     *)

AllOptions == 1..9

FilterDueDiligence(c, dd) ==
    IF dd = s_structured THEN c \cap {1, 3} ELSE c \cap {2, 4, 5, 6, 7, 8, 9}

(* Variants of filter 2: the no-deposit options added to the candidates    *)
(* (|= for &=), and option 4 left out of the deposit options.              *)
FilterDeposit_Widen(c, deposit) ==
    IF ~deposit THEN c \cup {1, 2, 5} ELSE c \cap {3, 4, 6, 7, 8, 9}

FilterDeposit_NoFour(c, deposit) ==
    IF ~deposit THEN c \cap {1, 2, 5} ELSE c \cap {3, 6, 7, 8, 9}

FilterDeposit(c, deposit) ==
    IF ~deposit THEN c \cap {1, 2, 5} ELSE c \cap {3, 4, 6, 7, 8, 9}

(* Variant of filter 3: option 6 left out of the no-escrow options.        *)
FilterEscrow_NoSix(c, escrow) ==
    IF ~Truthy(escrow) THEN c \cap {5} ELSE c \cap {1, 2, 3, 4, 7, 8, 9}

FilterEscrow(c, escrow) ==
    IF ~Truthy(escrow) THEN c \cap {5, 6} ELSE c \cap {1, 2, 3, 4, 7, 8, 9}

FilterExclusivity(c, exclusivity) ==
    IF ~Truthy(exclusivity) THEN c \cap {7} ELSE c \cap {1, 2, 3, 4, 5, 6, 8, 9}

FilterJurisdiction(c, jur) ==
    IF jur = s_non_exclusive THEN c \cap {8} ELSE c \cap {1, 2, 3, 4, 5, 6, 7, 9}

(* Variants of the selection that a slip in lines 216-221 would give:      *)
(* a fallback to the first option, and the last candidate instead of the   *)
(* first.                                                                  *)
SelectOption_FallbackFirst(c) ==
    IF c # {} THEN CHOOSE n \in c : \A k \in c : n <= k ELSE 1

SelectOption_Last(c) ==
    IF c # {} THEN CHOOSE n \in c : \A k \in c : n >= k ELSE 9

(* sorted(list(candidates))[0], or the fallback                            *)
SelectOption(c) ==
    IF c # {} THEN CHOOSE n \in c : \A k \in c : n <= k ELSE 9

(* The warning is printed exactly when the fallback is taken.              *)
WarningPrinted(c) == c = {}

FinalCandidates(dd, deposit, escrow, exclusivity, jur) ==
    FilterJurisdiction(
      FilterExclusivity(
        FilterEscrow(
          FilterDeposit(
            FilterDueDiligence(AllOptions, dd), deposit), escrow), exclusivity), jur)

MapToOption(dd, deposit, escrow, exclusivity, jur) ==
    SelectOption(FinalCandidates(dd, deposit, escrow, exclusivity, jur))

----------------------------------------------------------------------------
(* describe_option and the response of determine_option.                   *)

DescribePrefix(status) ==
    IF Contains(s_binding, Lower(status)) THEN "BINDING" ELSE "NON_BINDING"

(* Variant: a lookup that knows only the first eight options.              *)
DescribeOption_EightOptions(n, status) ==
    IF n \in 1..8 THEN DESCRIPTIONS[DescribePrefix(status)][n] ELSE "Unknown Option"

DescribeOption(n, status) ==
    LET table == DESCRIPTIONS[DescribePrefix(status)]
    IN  IF n \in DOMAIN table THEN table[n] ELSE "Unknown Option"

(* One call of describe_option: its arguments, the table it selected and   *)
(* the text it returned.                                                   *)
DescribeCall(n, status) ==
    [option_number |-> n, binding_status |-> status,
     prefix |-> DescribePrefix(status), value |-> DescribeOption(n, status),
     returned |-> TRUE]

DescribeArgs(n, status) ==
    [option_number |-> n, binding_status |-> status,
     prefix |-> "", value |-> "", returned |-> FALSE]

NoDescribe == DescribeArgs(0, <<>>)

(* Variant: the prefix chosen by the substring test describe_option uses.  *)
TemplatePrefix_Substring(status) ==
    IF Contains(s_binding, status) THEN s_BINDING ELSE s_NON_BINDING

TemplatePrefix(status) == IF status = s_binding THEN s_BINDING ELSE s_NON_BINDING

(* Variant: the identifier built without regard to the binding status.     *)
TemplateVariant_SamePrefix(status, n) == s_BINDING \o s__Option_ \o NatStr(n)

TemplateVariant(status, n) == TemplatePrefix(status) \o s__Option_ \o NatStr(n)

Response(status, n, dd, deposit, amount, escrow, exclusivity, jur) ==
    [binding_status |-> status,
     option_number |-> n,
     template_variant |-> TemplateVariant(status, n),
     description |-> DescribeOption(n, status),
     characteristics |->
        [dd_structure |-> dd, has_deposit |-> deposit, deposit_amount |-> amount,
         has_escrow |-> escrow, has_exclusivity |-> exclusivity,
         jurisdiction |-> jur]]

NoResult == Response(<<>>, 0, <<>>, FALSE, None, None, None, <<>>)

(* determine_option as a function of the form data: the record returned,  *)
(* or the exception raised.                                                *)
DetermineOption(fd) ==
    LET status == NormalizeBindingStatus(fd)
        dd == NormalizeDdStructure(fd)
        dep == ConvertDepositAmount(fd)
        deposit == Positive(dep.val)
        escrow == NormalizeEscrow(fd)
        exclusivity == NormalizeExclusivity(fd)
        jur == NormalizeJurisdiction(fd)
    IN  IF dep.exc # "none"
        THEN [raised |-> dep.exc, value |-> NoResult]
        ELSE [raised |-> "none",
              value |-> Response(status,
                                 MapToOption(dd, deposit, escrow, exclusivity, jur),
                                 dd, deposit, dep.val, escrow, exclusivity, jur)]

----------------------------------------------------------------------------
(* The form data a caller may pass: each key absent, or a text, a number,  *)
(* a boolean or None.                                                      *)

s_Non_Binding_padded == <<" ", "N", "o", "n", "-", "B", "i", "n", "d", "i", "n", "g", " ">>
s_Ad_Hoc == <<"A", "d", " ", "H", "o", "c">>
s_STRUCTURED == <<"S", "T", "R", "U", "C", "T", "U", "R", "E", "D">>
s_abc == <<"a", "b", "c">>
s_100_padded == <<" ", "1", "0", "0", " ">>
s_Yes == <<"Y", "e", "s">>
s_no == <<"n", "o">>
s_Exclusive == <<"E", "x", "c", "l", "u", "s", "i", "v", "e">>

BindingStatusInputs ==
    {Absent, RawStr(s_binding), RawStr(s_non_binding),
     RawStr(s_Non_Binding_padded), RawBool(FALSE), None}

DueDiligenceInputs ==
    {Absent, RawStr(s_structured), RawStr(s_unstructured), RawStr(s_STRUCTURED),
     RawStr(s_Ad_Hoc), None}

(* 10^400 is an integer no double can hold.                                *)
DepositInputs ==
    {Absent, RawInt(0, 0), RawInt(500000, 0), RawInt(1, 400), RawStr(s_abc),
     RawStr(s_100_padded), RawBool(TRUE), None}

EscrowInputs == {Absent, RawBool(TRUE), RawBool(FALSE), RawStr(s_Yes), None}

ExclusivityInputs ==
    {Absent, RawBool(TRUE), RawBool(FALSE), RawStr(s_no), RawInt(1, 0)}

JurisdictionInputs ==
    {Absent, RawStr(s_exclusive), RawStr(s_non_exclusive), RawStr(s_Exclusive), None}

FormInputs ==
    [bindingStatus : BindingStatusInputs,
     dueDiligenceStructure : DueDiligenceInputs,
     depositAmount : DepositInputs,
     escrowRequired : EscrowInputs,
     exclusivityRequired : ExclusivityInputs,
     jurisdiction : JurisdictionInputs]

----------------------------------------------------------------------------
(* validate_form_data: the record returned, or the exception raised.       *)

Message(text, arg) == [text |-> text, arg |-> arg]

NotValidated ==
    [returned |-> FALSE, raised |-> "none", is_valid |-> FALSE,
     errors |-> <<>>, warnings |-> <<>>]

(* Variant: the second required field is checked only when the first is   *)
(* present (elif for if).                                                  *)
RequiredErrors_FirstOnly(fd) ==
    IF ~Truthy(Get(fd, "bindingStatus", None))
    THEN <<Message("bindingStatus is required", <<>>)>>
    ELSE IF ~Truthy(Get(fd, "dueDiligenceStructure", None))
         THEN <<Message("dueDiligenceStructure is required", <<>>)>>
         ELSE <<>>

(* The errors of the required-field checks.                                *)
RequiredErrors(fd) ==
    (IF ~Truthy(Get(fd, "bindingStatus", None))
     THEN <<Message("bindingStatus is required", <<>>)>> ELSE <<>>)
    \o
    (IF ~Truthy(Get(fd, "dueDiligenceStructure", None))
     THEN <<Message("dueDiligenceStructure is required", <<>>)>> ELSE <<>>)

BindingWarnings(fd) ==
    LET binding == Lower(PyStr(Get(fd, "bindingStatus", RawStr(<<>>))))
    IN  IF binding # <<>> /\ binding \notin {s_binding, s_non_binding, s_true, s_false}
        THEN <<Message("Unusual bindingStatus value: ", binding)>> ELSE <<>>

DdWarnings(fd) ==
    LET dd == Lower(PyStr(Get(fd, "dueDiligenceStructure", RawStr(<<>>))))
    IN  IF /\ dd # <<>>
           /\ ~Contains(s_struct, dd)
           /\ dd \notin {s_structured, s_unstructured}
        THEN <<Message("Unusual dueDiligenceStructure value: ", dd)>> ELSE <<>>

(* The deposit check: no error, the error appended by the handler, or the  *)
(* exception the handler does not catch.                                   *)
DepositCheck(fd) ==
    LET deposit == Get(fd, "depositAmount", RawInt(0, 0))
        conv == PyFloat(deposit)
    IN  IF ~Truthy(deposit) THEN [exc |-> "none", errors |-> <<>>]
        ELSE IF conv.exc \in {"ValueError", "TypeError"}
             THEN [exc |-> "none",
                   errors |-> <<Message("Invalid depositAmount: ", PyStr(deposit))>>]
             ELSE [exc |-> conv.exc, errors |-> <<>>]

JurisdictionWarnings(fd) ==
    LET jur == Lower(PyStr(Get(fd, "jurisdiction", RawStr(<<>>))))
    IN  IF jur # <<>> /\ jur \notin {s_exclusive, s_non_exclusive}
        THEN <<Message("Unusual jurisdiction value: ", jur)>> ELSE <<>>

ValidateFormData(fd) ==
    LET check == DepositCheck(fd)
        errors == RequiredErrors(fd) \o check.errors
        warnings == BindingWarnings(fd) \o DdWarnings(fd) \o JurisdictionWarnings(fd)
    IN  IF check.exc # "none"
        THEN [returned |-> FALSE, raised |-> check.exc, is_valid |-> FALSE,
              errors |-> <<>>, warnings |-> <<>>]
        ELSE [returned |-> TRUE, raised |-> "none", is_valid |-> Len(errors) = 0,
              errors |-> errors, warnings |-> warnings]

----------------------------------------------------------------------------
(* One call of determine_option(form_data), statement by statement.        *)

Init ==
    /\ form_data \in FormInputs
    /\ pc = "start"
    /\ binding_status = <<>>
    /\ dd_structure = <<>>
    /\ deposit_amount = None
    /\ has_deposit = FALSE
    /\ has_escrow = None
    /\ has_exclusivity = None
    /\ jurisdiction = <<>>
    /\ candidates = {}
    /\ option_number = 0
    /\ warned = FALSE
    /\ result = NoResult
    /\ raised = "none"
    /\ describe = NoDescribe
    /\ validation = NotValidated

(* Extract and normalize the inputs; an exception the try statement does   *)
(* not catch ends the call.                                                *)
Normalize ==
    /\ pc = "start"
    /\ LET dep == ConvertDepositAmount(form_data)
       IN  IF dep.exc # "none"
           THEN /\ pc' = "raised"
                /\ raised' = dep.exc
                /\ binding_status' = NormalizeBindingStatus(form_data)
                /\ dd_structure' = NormalizeDdStructure(form_data)
                /\ UNCHANGED <<deposit_amount, has_deposit, has_escrow,
                               has_exclusivity, jurisdiction>>
           ELSE /\ pc' = "map"
                /\ raised' = "none"
                /\ binding_status' = NormalizeBindingStatus(form_data)
                /\ dd_structure' = NormalizeDdStructure(form_data)
                /\ deposit_amount' = dep.val
                /\ has_deposit' = Positive(dep.val)
                /\ has_escrow' = NormalizeEscrow(form_data)
                /\ has_exclusivity' = NormalizeExclusivity(form_data)
                /\ jurisdiction' = NormalizeJurisdiction(form_data)
    /\ UNCHANGED <<form_data, candidates, option_number, warned, result,
                   describe, validation>>

(* _map_to_option is entered: start with all 9 options.                    *)
MapStart ==
    /\ pc = "map"
    /\ candidates' = AllOptions
    /\ pc' = "filter1"
    /\ UNCHANGED <<form_data, binding_status, dd_structure, deposit_amount,
                   has_deposit, has_escrow, has_exclusivity, jurisdiction,
                   option_number, warned, result, raised, describe, validation>>

Filter1 ==
    /\ pc = "filter1"
    /\ candidates' = FilterDueDiligence(candidates, dd_structure)
    /\ pc' = "filter2"
    /\ UNCHANGED <<form_data, binding_status, dd_structure, deposit_amount,
                   has_deposit, has_escrow, has_exclusivity, jurisdiction,
                   option_number, warned, result, raised, describe, validation>>

Filter2 ==
    /\ pc = "filter2"
    /\ candidates' = FilterDeposit(candidates, has_deposit)
    /\ pc' = "filter3"
    /\ UNCHANGED <<form_data, binding_status, dd_structure, deposit_amount,
                   has_deposit, has_escrow, has_exclusivity, jurisdiction,
                   option_number, warned, result, raised, describe, validation>>

Filter3 ==
    /\ pc = "filter3"
    /\ candidates' = FilterEscrow(candidates, has_escrow)
    /\ pc' = "filter4"
    /\ UNCHANGED <<form_data, binding_status, dd_structure, deposit_amount,
                   has_deposit, has_escrow, has_exclusivity, jurisdiction,
                   option_number, warned, result, raised, describe, validation>>

Filter4 ==
    /\ pc = "filter4"
    /\ candidates' = FilterExclusivity(candidates, has_exclusivity)
    /\ pc' = "filter5"
    /\ UNCHANGED <<form_data, binding_status, dd_structure, deposit_amount,
                   has_deposit, has_escrow, has_exclusivity, jurisdiction,
                   option_number, warned, result, raised, describe, validation>>

Filter5 ==
    /\ pc = "filter5"
    /\ candidates' = FilterJurisdiction(candidates, jurisdiction)
    /\ pc' = "select"
    /\ UNCHANGED <<form_data, binding_status, dd_structure, deposit_amount,
                   has_deposit, has_escrow, has_exclusivity, jurisdiction,
                   option_number, warned, result, raised, describe, validation>>

(* _map_to_option returns the first candidate, or warns and returns 9.     *)
Select ==
    /\ pc = "select"
    /\ option_number' = SelectOption(candidates)
    /\ warned' = WarningPrinted(candidates)
    /\ pc' = "respond"
    /\ UNCHANGED <<form_data, binding_status, dd_structure, deposit_amount,
                   has_deposit, has_escrow, has_exclusivity, jurisdiction,
                   candidates, result, raised, describe, validation>>

(* determine_option builds and returns the response.                       *)
Respond ==
    /\ pc = "respond"
    /\ result' = Response(binding_status, option_number, dd_structure,
                          has_deposit, deposit_amount, has_escrow,
                          has_exclusivity, jurisdiction)
    /\ describe' = DescribeCall(option_number, binding_status)
    /\ pc' = "done"
    /\ UNCHANGED <<form_data, binding_status, dd_structure, deposit_amount,
                   has_deposit, has_escrow, has_exclusivity, jurisdiction,
                   candidates, option_number, warned, raised, validation>>

Next ==
    \/ Normalize
    \/ MapStart
    \/ Filter1
    \/ Filter2
    \/ Filter3
    \/ Filter4
    \/ Filter5
    \/ Select
    \/ Respond

Spec == Init /\ [][Next]_vars

(* validate_form_data called on the form data.                             *)
ValidateFormDataCall ==
    /\ validation = NotValidated
    /\ validation' = ValidateFormData(form_data)
    /\ UNCHANGED <<form_data, pc, binding_status, dd_structure, deposit_amount,
                   has_deposit, has_escrow, has_exclusivity, jurisdiction,
                   candidates, option_number, warned, result, raised, describe>>

NextValidate == ValidateFormDataCall

SpecValidate == Init /\ [][NextValidate]_vars

(* The statement-by-statement run returns what the function computes.      *)
StepwiseAgrees ==
    /\ pc = "done" => DetermineOption(form_data) = [raised |-> "none", value |-> result]
    /\ pc = "raised" => DetermineOption(form_data).raised = raised

----------------------------------------------------------------------------
(* Inputs the properties name.                                             *)

Form(status, dd, amount, escrow, exclusivity, jur) ==
    [bindingStatus |-> status, dueDiligenceStructure |-> dd,
     depositAmount |-> amount, escrowRequired |-> escrow,
     exclusivityRequired |-> exclusivity, jurisdiction |-> jur]

(* Reference row n of the table named by prefix, as raw form data.         *)
RowInput(prefix, n) ==
    LET row == OPTIONS_REFERENCE[prefix][n]
    IN  Form(RawStr(IF prefix = "BINDING" THEN s_binding ELSE s_non_binding),
             RawStr(row.dd),
             IF row.deposit THEN RawInt(500000, 0) ELSE RawInt(0, 0),
             RawBool(row.escrow), RawBool(row.exclusivity),
             RawStr(row.jurisdiction))

StandardDeal(status) ==
    Form(RawStr(status), RawStr(s_unstructured), RawInt(500000, 0),
         RawBool(TRUE), RawBool(TRUE), RawStr(s_exclusive))

EmptyForm == Form(Absent, Absent, Absent, Absent, Absent, Absent)

StartsWith(prefix, s) ==
    Len(s) >= Len(prefix) /\ SubSeq(s, 1, Len(prefix)) = prefix

Variant(prefix, n) == prefix \o s__Option_ \o <<DigitChars[n + 1]>>

Returned == pc = "done"

----------------------------------------------------------------------------
(* describe_option called on its own: any option number from 0 up to       *)
(* MaxOptionArg, any status text.                                          *)

MaxOptionArg == 12

DescribeStatusInputs ==
    {s_binding, s_non_binding, s_Non_Binding_padded, s_BINDING, s_abc, <<>>}

InitDescribe ==
    /\ form_data = EmptyForm
    /\ pc = "start"
    /\ binding_status = <<>>
    /\ dd_structure = <<>>
    /\ deposit_amount = None
    /\ has_deposit = FALSE
    /\ has_escrow = None
    /\ has_exclusivity = None
    /\ jurisdiction = <<>>
    /\ candidates = {}
    /\ option_number = 0
    /\ warned = FALSE
    /\ result = NoResult
    /\ raised = "none"
    /\ validation = NotValidated
    /\ describe \in {DescribeArgs(n, status) :
                        n \in 0..MaxOptionArg, status \in DescribeStatusInputs}

DescribeOptionCall ==
    /\ ~describe.returned
    /\ describe' = DescribeCall(describe.option_number, describe.binding_status)
    /\ UNCHANGED <<form_data, pc, binding_status, dd_structure, deposit_amount,
                   has_deposit, has_escrow, has_exclusivity, jurisdiction,
                   candidates, option_number, warned, result, raised, validation>>

NextDescribe == DescribeOptionCall

SpecDescribe == InitDescribe /\ [][NextDescribe]_vars

----------------------------------------------------------------------------
(* C1: for every raw form-data mapping determine_option returns without    *)
(* raising, and the option_number it returns is an integer in 1..9.        *)
C1_Total ==
    /\ pc # "raised"
    /\ Returned => result.option_number \in 1..9

(* C2: table fidelity: raw form data equal to reference row n is           *)
(* classified as option n, for every n in 1..9.                            *)
C2_TableFidelity ==
    \A prefix \in {"BINDING", "NON_BINDING"} : \A n \in 1..9 :
        (Returned /\ form_data = RowInput(prefix, n)) => result.option_number = n

(* C3: the standard binding deal yields template_variant BINDING_Option_9. *)
C3_StandardBinding ==
    (Returned /\ form_data = StandardDeal(s_binding))
        => result.template_variant = Variant(s_BINDING, 9)

(* C4: the standard characteristics with bindingStatus 'non-binding'       *)
(* yield template_variant NON_BINDING_Option_4.                            *)
C4_StandardNonBinding ==
    (Returned /\ form_data = StandardDeal(s_non_binding))
        => result.template_variant = Variant(s_NON_BINDING, 4)

(* C5: a binding deal with 'unstructured' due diligence that differs from  *)
(* the standard deal by having no deposit and no escrow yields             *)
(* BINDING_Option_5, and one that differs by non-exclusive jurisdiction    *)
(* yields BINDING_Option_8.                                                *)
C5_SingleDifference ==
    /\ (Returned /\ form_data = RowInput("BINDING", 5))
          => result.template_variant = Variant(s_BINDING, 5)
    /\ (Returned /\ form_data = RowInput("BINDING", 8))
          => result.template_variant = Variant(s_BINDING, 8)

C7_Fallback ==
    /\ (pc \in {"respond", "done"} /\ candidates = {})
          => option_number = 9 /\ warned /\ raised = "none"
    /\ (Returned /\ candidates = {})
          => /\ result.option_number = 9
             /\ result.binding_status \in {s_binding, s_non_binding}
             /\ result.template_variant \in
                   {Variant(s_BINDING, 9), Variant(s_NON_BINDING, 9)}
             /\ result.description = OptionTexts[9]
             /\ result.characteristics =
                   [dd_structure |-> dd_structure, has_deposit |-> has_deposit,
                    deposit_amount |-> deposit_amount, has_escrow |-> has_escrow,
                    has_exclusivity |-> has_exclusivity,
                    jurisdiction |-> jurisdiction]

C7_Witness ==
    /\ Returned
    /\ dd_structure = s_structured
    /\ jurisdiction = s_non_exclusive
    /\ candidates = {}
    /\ warned
    /\ result.option_number = 9

C9_Defaults ==
    (Returned /\ form_data = EmptyForm)
        => /\ result.binding_status = s_binding
           /\ result.characteristics.dd_structure = s_unstructured
           /\ result.characteristics.deposit_amount = RawInt(0, 0)
           /\ result.characteristics.has_deposit = FALSE
           /\ result.characteristics.has_escrow = RawBool(FALSE)
           /\ result.characteristics.has_exclusivity = RawBool(TRUE)
           /\ result.characteristics.jurisdiction = s_exclusive

(* C10: result-record consistency: the returned binding_status is          *)
(* 'binding' or 'non-binding', and the returned template_variant is        *)
(* BINDING_Option_<n> in the first case and NON_BINDING_Option_<n> in the  *)
(* second, n being the returned option_number.                             *)
C10_RecordConsistent ==
    Returned =>
        /\ result.option_number \in 1..9
        /\ \/ /\ result.binding_status = s_binding
              /\ result.template_variant = Variant(s_BINDING, result.option_number)
           \/ /\ result.binding_status = s_non_binding
              /\ result.template_variant = Variant(s_NON_BINDING, result.option_number)

C10_Witness ==
    /\ Returned
    /\ result.binding_status = s_non_binding
    /\ result.template_variant = Variant(s_NON_BINDING, 3)

(* C11: the description of a classification result is read from the       *)
(* description table of the same prefix as the variant identifier: the     *)
(* BINDING table for status 'binding', the NON_BINDING table for status    *)
(* 'non-binding'.                                                          *)
C11_SameTable ==
    Returned =>
        /\ describe.binding_status = result.binding_status
        /\ result.binding_status = s_binding =>
              /\ describe.prefix = "BINDING"
              /\ StartsWith(s_BINDING, result.template_variant)
        /\ result.binding_status = s_non_binding =>
              /\ describe.prefix = "NON_BINDING"
              /\ StartsWith(s_NON_BINDING, result.template_variant)

(* C14: describe_option never fails on an unknown key: for an option      *)
(* number outside 1..9, with any status text, it returns the literal       *)
(* 'Unknown Option'; for an option number in 1..9 it returns that          *)
(* option's description from the static table.                             *)
C14_UnknownOption ==
    describe.returned =>
        /\ describe.option_number \notin 1..9 => describe.value = "Unknown Option"
        /\ describe.option_number \in 1..9 =>
              /\ describe.value # "Unknown Option"
              /\ \E prefix \in {"BINDING", "NON_BINDING"} :
                    describe.value = DESCRIPTIONS[prefix][describe.option_number]

C14_Witness ==
    /\ describe.returned
    /\ describe.option_number > 9
    /\ describe.binding_status = s_abc
    /\ describe.prefix = "NON_BINDING"
    /\ describe.value = "Unknown Option"

Validated == validation # NotValidated

(* C12: validate_form_data({}) returns is_valid false, and its errors are  *)
(* 'bindingStatus is required' and 'dueDiligenceStructure is required'     *)
(* and no other.                                                           *)
C12_EmptyInvalid ==
    (Validated /\ form_data = EmptyForm) =>
        /\ validation.returned
        /\ validation.is_valid = FALSE
        /\ validation.errors =
              <<Message("bindingStatus is required", <<>>),
                Message("dueDiligenceStructure is required", <<>>)>>

C12_Witness ==
    /\ Validated
    /\ form_data = EmptyForm
    /\ validation.returned
    /\ Len(validation.errors) = 2
    /\ validation.warnings = <<>>

(* A field is missing when its key is absent or its value is None or the   *)
(* empty text; a deposit amount is non-numeric when it is a non-empty text *)
(* that float() does not accept.                                           *)
Missing(v) == v.t \in {"absent", "none"} \/ v = RawStr(<<>>)

NonNumeric(v) == v.t = "str" /\ v.s # <<>> /\ ParseFloat(v.s).exc # "none"

(* C13: for every raw input validate_form_data returns, with is_valid      *)
(* false exactly when bindingStatus is missing, dueDiligenceStructure is   *)
(* missing or depositAmount is non-numeric; unrecognized values of         *)
(* bindingStatus, dueDiligenceStructure and jurisdiction add warnings only.*)
C13_InvalidExactly ==
    Validated =>
        /\ validation.returned
        /\ validation.is_valid = FALSE <=>
              \/ Missing(form_data.bindingStatus)
              \/ Missing(form_data.dueDiligenceStructure)
              \/ NonNumeric(form_data.depositAmount)

(* c, in lower or upper case, at position i of s                           *)
SameLetter(c, x) ==
    x = c \/ \E k \in 1..26 : LowerCase[k] = c /\ UpperCase[k] = x

ContainsAnyCase(sub, s) ==
    \E i \in 0..(Len(s) - Len(sub)) :
        \A k \in 1..Len(sub) : SameLetter(sub[k], s[i + k])

C16_MonotoneNarrowing ==
    [][/\ pc = "map" => candidates' = 1..9
       /\ pc \in {"filter1", "filter2", "filter3", "filter4", "filter5"}
             => candidates' \subseteq candidates]_vars

C16_Witness ==
    /\ pc = "filter3"
    /\ dd_structure = s_structured
    /\ ~has_deposit
    /\ candidates = {1}

RowMatches(row) ==
    /\ row.dd = dd_structure
    /\ row.deposit = has_deposit
    /\ row.escrow = Truthy(has_escrow)
    /\ row.exclusivity = Truthy(has_exclusivity)
    /\ row.jurisdiction = jurisdiction

MatchingRows(prefix) == {n \in 1..9 : RowMatches(OPTIONS_REFERENCE[prefix][n])}

====
